---- MODULE Spec2Model ----
(***************************************************************************)
(* Model of the YOLO video timestamp extractor.                            *)
(*                                                                         *)
(*   extract_timestamps.py  detect_objects_in_video, format_timestamp,     *)
(*                          save_results                                   *)
(*   example_usage.py       the interval merge loop of                     *)
(*                          example_detection_intervals                    *)
(*   app.py                 the session state of the Streamlit app and     *)
(*                          load_detection_results                         *)
(*                                                                         *)
(* Spec is one run of detect_objects_in_video on a short video followed by *)
(* calls of save_results, SpecProgress the same run on a long video with   *)
(* an empty allow-list, SpecRoundTrip the export and the reading back of   *)
(* the result set of a short video, SpecMerge the merge loop on a given    *)
(* timeline, SpecApp the app's session state under uploads and clicks.     *)
(*                                                                         *)
(* Times are exact integers: a value in seconds is a fraction <<num, den>>,*)
(* timestamp_seconds after round(., 3) is a number of milliseconds, and    *)
(* timedelta holds a number of microseconds.  The representation error of  *)
(* binary floating point is not modelled.  A formatted timestamp           *)
(* "HH:MM:SS.mmm" is the tuple <<hours, minutes, seconds, milliseconds>>.  *)
(* A dict is the sequence of its items [k, v] in insertion order.  The     *)
(* confidence and the bounding box of a box are copied into the detection  *)
(* and take no part in filtering or ordering; they are left out.           *)
(***************************************************************************)
EXTENDS Integers, Sequences, FiniteSets, TLC

\* ----------------------------------------------------------------- bounds
\* most frames a video source holds
MaxFrames == 2
\* most boxes the detector returns for one frame
MaxBoxes == 2
\* most detections in a timeline handed to the merge loop
MaxLen == 3
\* frames of a source long enough for the progress report
LongStream == 100
\* most temporary copies of uploads the app writes in a session
MaxTempFiles == 8

\* ----------------------------------------------------------------- inputs
\* class names of the detector's label vocabulary (model.names)
Classes == {"person", "car"}

\* model.names maps class ids to names (COCO: 0 person, 2 car)
ClassId(class_name) == IF class_name = "person" THEN 0 ELSE 2

\* frame rates cap.get(CAP_PROP_FPS) reports; 0 is what a source without a
\* reliable rate reports; at 60 fps the second frame lies at 16.67 ms
FpsValues == {0, 10, 60}

\* target_classes: None, or a list of class names
TargetClassChoices ==
    { [is_none |-> TRUE,  names |-> <<>>],
      [is_none |-> FALSE, names |-> <<>>],
      [is_none |-> FALSE, names |-> <<"person">>] }

\* frame counts cap.get(CAP_PROP_FRAME_COUNT) reports for a long source: 0
\* if the container does not know its length, else the length
TotalFramesValues == {0, LongStream}

\* the results of the detector for one frame: the class names of its boxes
BoxLists == UNION { [1..n -> Classes] : n \in 0..MaxBoxes }

\* the frames of a short video with the boxes the detector finds in each
FrameLists == UNION { [1..n -> BoxLists] : n \in 0..MaxFrames }

\* timestamp_seconds values of the timelines handed to the merge loop, in
\* milliseconds: frames 0, 1, 2, 11, 12 and 50 of a 10 fps video
MergeTimes == {0, 100, 200, 1100, 1200, 5000}

\* the lists detections_by_class can hold for a class: one to MaxLen
\* detections in the order of their timestamps
Timelines ==
    { tl \in UNION { [1..n -> [timestamp_seconds : MergeTimes]] : n \in 1..MaxLen } :
        \A i \in 1..(Len(tl) - 1) :
            tl[i].timestamp_seconds <= tl[i + 1].timestamp_seconds }

\* the video files a user uploads to the app, by the stem of their name
Videos == {"a", "b"}

\* formats save_results is called with
ExportFormats == {"json", "csv", "CSV", "xml"}

\* ------------------------------------------------------------ arithmetic
\* round(num / den) to the nearest integer, ties to even (Python's round and
\* timedelta's rounding to microseconds), den > 0
RoundHalfEven(num, den) ==
    LET q == num \div den
        r == num % den
    IN  IF 2 * r < den THEN q
        ELSE IF 2 * r > den THEN q + 1
        ELSE IF q % 2 = 0 THEN q ELSE q + 1

\* seconds * scale rounded to the nearest integer, for an even scale; the
\* whole seconds are scaled apart to keep the products small
ScaledRound(seconds, scale) ==
    (seconds[1] \div seconds[2]) * scale
        + RoundHalfEven((seconds[1] % seconds[2]) * scale, seconds[2])

\* round(seconds, 3), as a number of milliseconds
Round3(seconds) == ScaledRound(seconds, 1000)

\* timedelta(seconds=seconds), as a number of microseconds
Timedelta(seconds) == ScaledRound(seconds, 1000000)

\* a number of milliseconds as a value in seconds
MillisAsSeconds(ms) == <<ms, 1000>>

\* format_timestamp: <<hours, minutes, seconds, milliseconds>>; int()
\* truncates
format_timestamp(seconds) ==
    LET td == Timedelta(seconds)
        total_seconds == td \div 1000000
        hours == total_seconds \div 3600
        remainder == total_seconds % 3600
        minutes == remainder \div 60
        secs == remainder % 60
        milliseconds == (td - total_seconds * 1000000) \div 1000
    IN  << hours, minutes, secs, milliseconds >>

\* the number of milliseconds a formatted timestamp reads as
ParseTimestamp(text) ==
    ((text[1] * 60 + text[2]) * 60 + text[3]) * 1000 + text[4]

\* ------------------------------------------------------------------ dicts
DictKeys(d) == [i \in 1..Len(d) |-> d[i].k]

KeySet(d) == { d[i].k : i \in 1..Len(d) }

DictGet(d, key) == d[CHOOSE i \in 1..Len(d) : d[i].k = key].v

DictAppendOnce(d, key, x) ==
    IF key \in KeySet(d)
    THEN [i \in 1..Len(d) |->
            IF d[i].k = key /\ \A j \in 1..Len(d[i].v) : d[i].v[j] # x
            THEN [k |-> key, v |-> Append(d[i].v, x)]
            ELSE d[i]]
    ELSE Append(d, [k |-> key, v |-> <<x>>])

DictAppendFront(d, key, x) ==
    IF key \in KeySet(d)
    THEN [i \in 1..Len(d) |->
            IF d[i].k = key THEN [k |-> key, v |-> <<x>> \o d[i].v] ELSE d[i]]
    ELSE Append(d, [k |-> key, v |-> <<x>>])

\* detections[class_name].append(detection) on a defaultdict(list)
DictAppend(d, key, x) ==
    IF key \in KeySet(d)
    THEN [i \in 1..Len(d) |->
            IF d[i].k = key THEN [k |-> key, v |-> Append(d[i].v, x)] ELSE d[i]]
    ELSE Append(d, [k |-> key, v |-> <<x>>])

\* ------------------------------------------------------------------ state
VARIABLES
    pc,               \* "open", "loop", "done" (returned), "failed" (raised)
    fps,              \* cap.get(CAP_PROP_FPS)
    total_frames,     \* int(cap.get(CAP_PROP_FRAME_COUNT))
    target_classes,   \* the parameter target_classes
    frame_number,     \* the loop's frame counter
    results,          \* the detector's boxes for the frame last read
    detections,       \* defaultdict(list): class name -> list of detections
    output_data,      \* <<>> until returned, then <<the result set>>
    error,            \* the exception that ended the run, "none" if none
    stream_left,      \* frames the source still holds, of MaxFrames
    out_of_order,     \* the source delivered a frame that lies before one
                      \* it delivered earlier
    json_file,        \* <<>> until written, then <<the document>>
    csv_file,         \* <<>> until written, then <<the data rows>>
    export_error,     \* what the last save_results call raised
    loaded_results,   \* <<>> until the JSON file is read back, then
                      \* <<the result set read>>
    merge_pc,         \* the merge loop: "idle", "start", "loop", "done"
    car_entry,        \* <<>> if 'car' is no key of detections_by_class,
                      \* else <<its list>>
    rest,             \* the detections the for loop has yet to visit
    current_start,    \* milliseconds
    current_end,      \* milliseconds
    intervals,        \* the list of interval dicts
    uploaded_file,    \* app.py: the file uploader's value, <<>> for None
    video_name,       \* st.session_state.video_name (with video_path and
                      \* video_bytes, always set together), <<>> if unset
    detection_results,\* st.session_state.detection_results: <<>> if unset,
                      \* else <<the video the result set was computed from>>
    output_file,      \* st.session_state.output_file: <<>> if unset, else
                      \* <<video>> for "{video_name}_timestamps.json"
    temp_files        \* temporary copies of uploads written so far

run_vars == << pc, fps, total_frames, target_classes, frame_number, results, detections,
               output_data, error, stream_left, out_of_order, json_file, csv_file, export_error,
               loaded_results >>

merge_vars == << merge_pc, car_entry, rest, current_start, current_end,
                 intervals >>

app_vars == << uploaded_file, video_name, detection_results, output_file,
               temp_files >>

vars == << run_vars, merge_vars, app_vars >>

\* ------------------------------------------------- detect_objects_in_video
\* frame_number / fps if fps > 0 else 0
TimestampSeconds(n, rate) == IF rate > 0 THEN <<n, rate>> ELSE <<0, 1>>

SkippedIfNotListed(target, class_name) ==
    /\ target.names # <<>>
    /\ class_name \notin { target.names[i] : i \in 1..Len(target.names) }

SkippedIfListed(target, class_name) ==
    /\ ~target.is_none
    /\ class_name \in { target.names[i] : i \in 1..Len(target.names) }

\* target_classes is not None and class_name not in target_classes
Skipped(target, class_name) ==
    /\ ~target.is_none
    /\ class_name \notin { target.names[i] : i \in 1..Len(target.names) }

DetectionAfterIncrement(n, rate, class_name) ==
    [ timestamp_seconds   |-> Round3(TimestampSeconds(n + 1, rate)),
      timestamp_formatted |-> format_timestamp(TimestampSeconds(n + 1, rate)),
      frame_number        |-> n + 1,
      class_name          |-> class_name,
      class_id            |-> ClassId(class_name) ]

\* the detection dict stored for a box
Detection(n, rate, class_name) ==
    [ timestamp_seconds   |-> Round3(TimestampSeconds(n, rate)),
      timestamp_formatted |-> format_timestamp(TimestampSeconds(n, rate)),
      frame_number        |-> n,
      class_name          |-> class_name,
      class_id            |-> ClassId(class_name) ]

\* the loop over the boxes of one frame
RECURSIVE ProcessBoxes(_, _, _, _, _)
ProcessBoxes(dets, boxes, target, n, rate) ==
    IF boxes = <<>> THEN dets
    ELSE LET class_name == Head(boxes)
             stored == IF Skipped(target, class_name) THEN dets
                       ELSE DictAppend(dets, class_name,
                                       Detection(n, rate, class_name))
         IN  ProcessBoxes(stored, Tail(boxes), target, n, rate)

SummaryCountingFrames(dets) ==
    [ i \in 1..Len(dets) |->
        [ k |-> dets[i].k,
          v |-> [ count            |->
                      Cardinality({ dets[i].v[j].frame_number :
                                      j \in 1..Len(dets[i].v) }),
                  first_appearance |-> dets[i].v[1].timestamp_formatted,
                  last_appearance  |->
                      dets[i].v[Len(dets[i].v)].timestamp_formatted ] ] ]

\* the summary comprehension
Summary(dets) ==
    [ i \in 1..Len(dets) |->
        [ k |-> dets[i].k,
          v |-> [ count            |-> Len(dets[i].v),
                  first_appearance |-> dets[i].v[1].timestamp_formatted,
                  last_appearance  |->
                      dets[i].v[Len(dets[i].v)].timestamp_formatted ] ] ]

\* total_frames / fps if fps > 0 else 0
VideoDuration(total, rate) == IF rate > 0 THEN <<total, rate>> ELSE <<0, 1>>

\* the video_properties dict; duration_seconds in milliseconds
VideoProperties(rate, total) ==
    [ fps                |-> rate,
      total_frames       |-> total,
      duration_seconds   |-> Round3(VideoDuration(total, rate)),
      duration_formatted |-> format_timestamp(VideoDuration(total, rate)) ]

\* target_classes if target_classes else 'all classes': None and the empty
\* list are both falsy
RecordedTargetClasses(target) ==
    IF ~target.is_none /\ target.names # <<>>
    THEN [all_classes |-> FALSE, names |-> target.names]
    ELSE [all_classes |-> TRUE,  names |-> <<>>]

\* the dict returned
OutputData(dets, rate, total, target) ==
    [ video_properties    |-> VideoProperties(rate, total),
      detection_settings  |-> [target_classes |-> RecordedTargetClasses(target)],
      detections_by_class |-> dets,
      summary             |-> Summary(dets) ]

\* a progress line is printed every 100 frames
ProgressEvery == 100

\* progress = (frame_number / total_frames) * 100 divides by zero
ProgressFails(n, total) == n % ProgressEvery = 0 /\ total = 0

\* the loop runs while the capture is open
LoopRunningOrReturned == pc \in {"loop", "done"}

LoopRunning == pc = "loop"

\* the app has not been started
AppIdle ==
    /\ uploaded_file = <<>>
    /\ video_name = <<>>
    /\ detection_results = <<>>
    /\ output_file = <<>>
    /\ temp_files = 0

\* the merge loop of the example has not been started
MergeIdle ==
    /\ merge_pc = "idle"
    /\ car_entry = <<>>
    /\ rest = <<>>
    /\ current_start = 0
    /\ current_end = 0
    /\ intervals = <<>>

Init ==
    /\ pc = "open"
    /\ fps \in FpsValues
    /\ total_frames = MaxFrames
    /\ target_classes \in TargetClassChoices
    /\ stream_left = MaxFrames
    /\ frame_number = 0
    /\ results = <<>>
    /\ detections = <<>>
    /\ output_data = <<>>
    /\ error = "none"
    /\ out_of_order = FALSE
    /\ json_file = <<>>
    /\ csv_file = <<>>
    /\ export_error = "none"
    /\ loaded_results = <<>>
    /\ MergeIdle
    /\ AppIdle

\* cap.isOpened() is false: raise ValueError
OpenFails ==
    /\ pc = "open"
    /\ pc' = "failed"
    /\ error' = "ValueError"
    /\ UNCHANGED << fps, total_frames, target_classes, frame_number, results, detections,
                    output_data, stream_left, out_of_order, json_file,
                    csv_file, export_error, loaded_results >>
    /\ UNCHANGED << merge_vars, app_vars >>

\* the capture opens; properties are read, detections = defaultdict(list),
\* frame_number = 0
OpenVideo ==
    /\ pc = "open"
    /\ pc' = "loop"
    /\ frame_number' = 0
    /\ detections' = <<>>
    /\ UNCHANGED << fps, total_frames, target_classes, results, output_data, error,
                    stream_left, out_of_order, json_file, csv_file,
                    export_error, loaded_results >>
    /\ UNCHANGED << merge_vars, app_vars >>

\* one iteration of the while loop with ret true: the frame is stamped with
\* the loop's counter, wherever it lies in the source; every 100 frames the
\* progress is computed, and the division raises when total_frames is 0
ProcessFrame(boxes, in_order) ==
    /\ LoopRunning
    /\ stream_left > 0
    /\ (frame_number = 0 => in_order)
    /\ results' = boxes
    /\ detections' = ProcessBoxes(detections, boxes, target_classes,
                                  frame_number, fps)
    /\ frame_number' = frame_number + 1
    /\ stream_left' = stream_left - 1
    /\ out_of_order' = (out_of_order \/ ~in_order)
    /\ IF ProgressFails(frame_number + 1, total_frames)
       THEN pc' = "failed" /\ error' = "ZeroDivisionError"
       ELSE UNCHANGED << pc, error >>
    /\ UNCHANGED << fps, total_frames, target_classes, output_data,
                    json_file, csv_file, export_error, loaded_results >>
    /\ UNCHANGED << merge_vars, app_vars >>

\* model(frame, ...) raises: the exception leaves detect_objects_in_video
DetectorFails ==
    /\ LoopRunning
    /\ stream_left > 0
    /\ pc' = "failed"
    /\ error' = "Exception"
    /\ stream_left' = stream_left - 1
    /\ UNCHANGED << fps, total_frames, target_classes, frame_number, results, detections,
                    output_data, out_of_order, json_file, csv_file,
                    export_error, loaded_results >>
    /\ UNCHANGED << merge_vars, app_vars >>

\* cap.read() returns ret false (end of the stream, or a frame that cannot
\* be read): break, cap.release(), build and return output_data
EndOfStream ==
    /\ LoopRunning
    /\ pc' = "done"
    /\ output_data' = << OutputData(detections, fps, total_frames,
                                    target_classes) >>
    /\ UNCHANGED << fps, total_frames, target_classes, frame_number, results, detections,
                    error, stream_left, out_of_order, json_file, csv_file,
                    export_error, loaded_results >>
    /\ UNCHANGED << merge_vars, app_vars >>

\* ------------------------------------------------------------ save_results
\* str.lower() on the formats in use
Lower(format) == IF format = "CSV" THEN "csv" ELSE format

RECURSIVE SortedKeys(_)
SortedKeys(keys) ==
    IF keys = {} THEN <<>>
    ELSE LET least == CHOOSE a \in keys :
                          \A b \in keys : a = b \/ (a = "car" /\ b = "person")
         IN  <<least>> \o SortedKeys(keys \ {least})

\* the row written for one detection
CsvRow(det) ==
    << det.timestamp_seconds, det.timestamp_formatted, det.frame_number,
       det.class_name >>

CsvRowsSorted(by_class) ==
    LET keys == SortedKeys(KeySet(by_class))
        F[i \in 0..Len(keys)] ==
            IF i = 0 THEN <<>>
            ELSE F[i - 1] \o [ j \in 1..Len(DictGet(by_class, keys[i])) |->
                                 CsvRow(DictGet(by_class, keys[i])[j]) ]
    IN  F[Len(keys)]

\* the data rows of the two nested loops over data['detections_by_class']
RECURSIVE CsvRows(_)
CsvRows(by_class) ==
    IF by_class = <<>> THEN <<>>
    ELSE [ j \in 1..Len(Head(by_class).v) |-> CsvRow(Head(by_class).v[j]) ]
         \o CsvRows(Tail(by_class))

\* json.dump writes a float in decimal digits: << whole seconds, thousandths >>
JsonNumber(ms) == << ms \div 1000, ms % 1000 >>

\* json.load reads the digits back into a float
JsonParseNumber(digits) == digits[1] * 1000 + digits[2]

\* a dict is written as an object, the sequence of its members << name, value >>
\* in the order of the dict; a list as an array
JsonDumpDetections(list) ==
    [ j \in 1..Len(list) |->
        [ list[j] EXCEPT !.timestamp_seconds = JsonNumber(@) ] ]

\* json.dump(data, f, indent=2)
JsonDump(data) ==
    [ video_properties    |->
          [ data.video_properties EXCEPT !.duration_seconds = JsonNumber(@) ],
      detection_settings  |-> data.detection_settings,
      detections_by_class |->
          [ i \in 1..Len(data.detections_by_class) |->
              << data.detections_by_class[i].k,
                 JsonDumpDetections(data.detections_by_class[i].v) >> ],
      summary             |->
          [ i \in 1..Len(data.summary) |->
              << data.summary[i].k, data.summary[i].v >> ] ]

JsonLoadDetections(array) ==
    [ j \in 1..Len(array) |->
        [ array[j] EXCEPT !.timestamp_seconds = JsonParseNumber(@) ] ]

\* json.load(f): objects become dicts again, in the order of the document
JsonLoad(doc) ==
    [ video_properties    |->
          [ doc.video_properties EXCEPT !.duration_seconds = JsonParseNumber(@) ],
      detection_settings  |-> doc.detection_settings,
      detections_by_class |->
          [ i \in 1..Len(doc.detections_by_class) |->
              [ k |-> doc.detections_by_class[i][1],
                v |-> JsonLoadDetections(doc.detections_by_class[i][2]) ] ],
      summary             |->
          [ i \in 1..Len(doc.summary) |->
              [ k |-> doc.summary[i][1], v |-> doc.summary[i][2] ] ] ]

SaveOutcomeElseCsv(format, data, files) ==
    IF Lower(format) = "json"
    THEN [ files EXCEPT !.json_file = << JsonDump(data) >>,
                        !.export_error = "none" ]
    ELSE [ files EXCEPT !.csv_file = << CsvRows(data.detections_by_class) >>,
                        !.export_error = "none" ]

\* what one call of save_results leaves behind: the two output files and
\* the exception raised; the unsupported branch opens no file
SaveOutcome(format, data, files) ==
    IF Lower(format) = "json"
    THEN [ files EXCEPT !.json_file = << JsonDump(data) >>,
                        !.export_error = "none" ]
    ELSE IF Lower(format) = "csv"
    THEN [ files EXCEPT !.csv_file = << CsvRows(data.detections_by_class) >>,
                        !.export_error = "none" ]
    ELSE [ files EXCEPT !.export_error = "ValueError" ]

\* the result set the caller holds: the one returned by the run, or the one
\* read back from the JSON file once that has been done
CurrentData ==
    IF loaded_results = <<>> THEN output_data[1] ELSE loaded_results[1]

\* save_results(results, output, format) on the result set held
SaveResults(format) ==
    /\ pc = "done"
    /\ LET outcome == SaveOutcome(format, CurrentData,
                                  [ json_file    |-> json_file,
                                    csv_file     |-> csv_file,
                                    export_error |-> export_error ])
       IN  /\ json_file' = outcome.json_file
           /\ csv_file' = outcome.csv_file
           /\ export_error' = outcome.export_error
    /\ UNCHANGED << pc, fps, total_frames, target_classes, frame_number,
                    results, detections, output_data, error, stream_left,
                    out_of_order, loaded_results >>
    /\ UNCHANGED << merge_vars, app_vars >>

\* load_detection_results(json_path) on the JSON file written
LoadResults ==
    /\ json_file # <<>>
    /\ loaded_results' = << JsonLoad(json_file[1]) >>
    /\ UNCHANGED << pc, fps, total_frames, target_classes, frame_number,
                    results, detections, output_data, error, stream_left,
                    out_of_order, json_file, csv_file, export_error >>
    /\ UNCHANGED << merge_vars, app_vars >>

Next ==
    \/ OpenFails
    \/ OpenVideo
    \/ \E boxes \in BoxLists, in_order \in BOOLEAN :
           ProcessFrame(boxes, in_order)
    \/ DetectorFails
    \/ EndOfStream
    \/ \E format \in ExportFormats : SaveResults(format)

Spec == Init /\ [][Next]_vars

\* ---------------------------------------------------- a long, empty video
\* a source of LongStream frames run with an empty allow-list, so that no
\* detection is stored; the frame count the container reports is an input
InitProgress ==
    /\ pc = "open"
    /\ fps \in FpsValues
    /\ total_frames \in TotalFramesValues
    /\ target_classes = [is_none |-> FALSE, names |-> <<>>]
    /\ stream_left = LongStream
    /\ frame_number = 0
    /\ results = <<>>
    /\ detections = <<>>
    /\ output_data = <<>>
    /\ error = "none"
    /\ out_of_order = FALSE
    /\ json_file = <<>>
    /\ csv_file = <<>>
    /\ export_error = "none"
    /\ loaded_results = <<>>
    /\ MergeIdle
    /\ AppIdle

SpecProgress == InitProgress /\ [][Next]_vars

\* ------------------------------------------- export and read back
\* the whole loop over the frames of a video
RECURSIVE DetectFrames(_, _, _, _, _)
DetectFrames(dets, frames, target, n, rate) ==
    IF frames = <<>> THEN dets
    ELSE DetectFrames(ProcessBoxes(dets, Head(frames), target, n, rate),
                      Tail(frames), target, n + 1, rate)

\* a run that has returned the result set of a short video
InitRoundTrip ==
    /\ pc = "done"
    /\ fps = 60
    /\ target_classes \in TargetClassChoices
    /\ \E frames \in FrameLists :
           /\ total_frames = Len(frames)
           /\ frame_number = Len(frames)
           /\ results = IF frames = <<>> THEN <<>> ELSE frames[Len(frames)]
           /\ detections = DetectFrames(<<>>, frames, target_classes, 0, fps)
    /\ output_data = << OutputData(detections, fps, total_frames,
                                   target_classes) >>
    /\ stream_left = 0
    /\ error = "none"
    /\ out_of_order = FALSE
    /\ json_file = <<>>
    /\ csv_file = <<>>
    /\ export_error = "none"
    /\ loaded_results = <<>>
    /\ MergeIdle
    /\ AppIdle

NextRoundTrip ==
    \/ \E format \in ExportFormats : SaveResults(format)
    \/ LoadResults

SpecRoundTrip == InitRoundTrip /\ [][NextRoundTrip]_vars

\* ------------------------------------------- example_detection_intervals
\* the gap of the merge loop, 1.0 second, in milliseconds
GapTolerance == 1000

GapWithinStrict(ts, end) == ts - end < GapTolerance

\* ts - current_end <= 1.0
GapWithin(ts, end) == ts - end <= GapTolerance

\* the interval dict appended to intervals
Interval(start, end) ==
    [ start    |-> format_timestamp(MillisAsSeconds(start)),
      end      |-> format_timestamp(MillisAsSeconds(end)),
      duration |-> end - start ]

MergeDetectionKeepEnd(ivs, start, end, ts) ==
    IF GapWithin(ts, end)
    THEN [ intervals |-> ivs, current_start |-> start, current_end |-> end ]
    ELSE [ intervals     |-> Append(ivs, Interval(start, end)),
           current_start |-> ts,
           current_end   |-> ts ]

MergeDetectionKeepStart(ivs, start, end, ts) ==
    IF GapWithin(ts, end)
    THEN [ intervals |-> ivs, current_start |-> start, current_end |-> ts ]
    ELSE [ intervals     |-> Append(ivs, Interval(start, end)),
           current_start |-> start,
           current_end   |-> ts ]

\* the body of the for loop for one detection with timestamp ts
MergeDetection(ivs, start, end, ts) ==
    IF GapWithin(ts, end)
    THEN [ intervals |-> ivs, current_start |-> start, current_end |-> ts ]
    ELSE [ intervals     |-> Append(ivs, Interval(start, end)),
           current_start |-> ts,
           current_end   |-> ts ]

InitMerge ==
    /\ pc = "done"
    /\ fps = 10
    /\ total_frames = 0
    /\ target_classes = [is_none |-> FALSE, names |-> <<"car">>]
    /\ frame_number = 0
    /\ results = <<>>
    /\ detections = <<>>
    /\ output_data = <<>>
    /\ error = "none"
    /\ stream_left = 0
    /\ out_of_order = FALSE
    /\ json_file = <<>>
    /\ csv_file = <<>>
    /\ export_error = "none"
    /\ loaded_results = <<>>
    /\ merge_pc = "start"
    /\ car_entry \in {<<>>} \cup { <<tl>> : tl \in Timelines }
    /\ rest = <<>>
    /\ current_start = 0
    /\ current_end = 0
    /\ intervals = <<>>
    /\ AppIdle

\* 'car' is no key of detections_by_class, or its list is empty: nothing is
\* merged
MergeNothing ==
    /\ merge_pc = "start"
    /\ IF car_entry = <<>> THEN TRUE ELSE car_entry[1] = <<>>
    /\ merge_pc' = "done"
    /\ UNCHANGED << car_entry, rest, current_start, current_end, intervals >>
    /\ UNCHANGED << run_vars, app_vars >>

\* intervals = [], current_start = current_end = timestamp of the first
\* detection
MergeBegin ==
    /\ merge_pc = "start"
    /\ car_entry # <<>>
    /\ car_entry[1] # <<>>
    /\ intervals' = <<>>
    /\ current_start' = car_entry[1][1].timestamp_seconds
    /\ current_end' = car_entry[1][1].timestamp_seconds
    /\ rest' = Tail(car_entry[1])
    /\ merge_pc' = "loop"
    /\ UNCHANGED car_entry
    /\ UNCHANGED << run_vars, app_vars >>

\* one iteration of: for det in car_detections[1:]
MergeStep ==
    /\ merge_pc = "loop"
    /\ rest # <<>>
    /\ LET after == MergeDetection(intervals, current_start, current_end,
                                   Head(rest).timestamp_seconds)
       IN  /\ intervals' = after.intervals
           /\ current_start' = after.current_start
           /\ current_end' = after.current_end
    /\ rest' = Tail(rest)
    /\ UNCHANGED << merge_pc, car_entry >>
    /\ UNCHANGED << run_vars, app_vars >>

IntervalsWithoutLast(ivs, start, end) == ivs

\* after the loop: add the last interval
IntervalsWithLast(ivs, start, end) == Append(ivs, Interval(start, end))

MergeFinish ==
    /\ merge_pc = "loop"
    /\ rest = <<>>
    /\ intervals' = IntervalsWithLast(intervals, current_start, current_end)
    /\ merge_pc' = "done"
    /\ UNCHANGED << car_entry, rest, current_start, current_end >>
    /\ UNCHANGED << run_vars, app_vars >>

NextMerge ==
    \/ MergeNothing
    \/ MergeBegin
    \/ MergeStep
    \/ MergeFinish

SpecMerge == InitMerge /\ [][NextMerge]_vars

\* ------------------------------------------------------------------ app.py
\* one run of the script main() with the uploader holding file: a file is
\* copied to a new temporary file and video_path, video_name and
\* video_bytes of the session state are set from it; without a file the
\* session state is left as it is
ScriptRun(file, runs) ==
    IF file = <<>>
    THEN UNCHANGED << video_name, temp_files >>
    ELSE /\ video_name' = file
         /\ temp_files' = temp_files + runs

\* the user picks a file in the uploader; the script runs again
UploadVideo(v) ==
    /\ temp_files + 1 <= MaxTempFiles
    /\ uploaded_file' = << v >>
    /\ ScriptRun(<< v >>, 1)
    /\ UNCHANGED << detection_results, output_file >>
    /\ UNCHANGED << run_vars, merge_vars >>

\* the user removes the file from the uploader; the script runs again
RemoveVideo ==
    /\ uploaded_file # <<>>
    /\ uploaded_file' = <<>>
    /\ ScriptRun(<<>>, 0)
    /\ UNCHANGED << detection_results, output_file >>
    /\ UNCHANGED << run_vars, merge_vars >>

\* any other widget is touched (the sidebar, a selectbox of the results
\* tab); the script runs again
Rerun ==
    /\ uploaded_file # <<>> => temp_files + 1 <= MaxTempFiles
    /\ ScriptRun(uploaded_file, 1)
    /\ UNCHANGED << uploaded_file, detection_results, output_file >>
    /\ UNCHANGED << run_vars, merge_vars >>

\* "Start Detection" is clicked and the run and the save succeed: the
\* results of the file in the uploader and the name of the JSON file go to
\* the session state, st.rerun() runs the script once more
StartDetection ==
    /\ uploaded_file # <<>>
    /\ temp_files + 2 <= MaxTempFiles
    /\ ScriptRun(uploaded_file, 2)
    /\ detection_results' = uploaded_file
    /\ output_file' = uploaded_file
    /\ UNCHANGED uploaded_file
    /\ UNCHANGED << run_vars, merge_vars >>

\* "Start Detection" is clicked and detect_objects_in_video raises: the
\* error is shown, the session state keeps what it had
DetectionFails ==
    /\ uploaded_file # <<>>
    /\ temp_files + 1 <= MaxTempFiles
    /\ ScriptRun(uploaded_file, 1)
    /\ UNCHANGED << uploaded_file, detection_results, output_file >>
    /\ UNCHANGED << run_vars, merge_vars >>

\* "Start Detection" is clicked, the run succeeds and save_results raises:
\* the results are in the session state, output_file is not set
SaveFails ==
    /\ uploaded_file # <<>>
    /\ temp_files + 1 <= MaxTempFiles
    /\ ScriptRun(uploaded_file, 1)
    /\ detection_results' = uploaded_file
    /\ UNCHANGED << uploaded_file, output_file >>
    /\ UNCHANGED << run_vars, merge_vars >>

\* the app is started: an empty session state, no run of the detector yet
InitApp ==
    /\ AppIdle
    /\ MergeIdle
    /\ pc = "open"
    /\ fps = 0
    /\ total_frames = 0
    /\ target_classes = [is_none |-> TRUE, names |-> <<>>]
    /\ stream_left = 0
    /\ frame_number = 0
    /\ results = <<>>
    /\ detections = <<>>
    /\ output_data = <<>>
    /\ error = "none"
    /\ out_of_order = FALSE
    /\ json_file = <<>>
    /\ csv_file = <<>>
    /\ export_error = "none"
    /\ loaded_results = <<>>

NextApp ==
    \/ \E v \in Videos : UploadVideo(v)
    \/ RemoveVideo
    \/ Rerun
    \/ StartDetection
    \/ DetectionFails
    \/ SaveFails

SpecApp == InitApp /\ [][NextApp]_vars

\* ------------------------------------------------------------- properties
\* the number of entries of seq equal to x
Count(seq, x) == Cardinality({ i \in 1..Len(seq) : seq[i] = x })

\* the length of the list a dict holds for a key, 0 without the key
ListLen(d, key) == IF key \in KeySet(d) THEN Len(DictGet(d, key)) ELSE 0

\* short is a prefix of long
IsPrefix(short, long) ==
    /\ Len(short) <= Len(long)
    /\ \A i \in 1..Len(short) : short[i] = long[i]

NonDecreasing(list) ==
    \A i, j \in 1..Len(list) :
        i < j => /\ list[i].timestamp_seconds <= list[j].timestamp_seconds
                 /\ list[i].frame_number <= list[j].frame_number

AllNonDecreasing(d) == \A i \in 1..Len(d) : NonDecreasing(d[i].v)

\* C1: with a frame rate above 0, in every per-class list of detections (in
\* the loop and in the returned detections_by_class) the timestamp_seconds
\* and the frame_number values never decrease from the first entry to the
\* last.
C1_TimelinesNonDecreasing ==
    fps > 0 =>
        /\ AllNonDecreasing(detections)
        /\ output_data # <<>> =>
               AllNonDecreasing(output_data[1].detections_by_class)

C1_Witness ==
    /\ fps > 0
    /\ output_data # <<>>
    /\ \E i \in 1..Len(output_data[1].detections_by_class) :
           LET list == output_data[1].detections_by_class[i].v
           IN  /\ Len(list) >= 3
               /\ list[1].timestamp_seconds < list[Len(list)].timestamp_seconds

AllowList == { target_classes.names[i] : i \in 1..Len(target_classes.names) }

\* C2: with a non-empty allow-list every key of detections_by_class and of
\* summary is a class of the allow-list; a box of another class, also one
\* in the same frame as an allowed box, is in neither map.
C2_OnlyAllowedClasses ==
    (~target_classes.is_none /\ target_classes.names # <<>>) =>
        /\ KeySet(detections) \subseteq AllowList
        /\ output_data # <<>> =>
               /\ KeySet(output_data[1].detections_by_class)
                      \subseteq AllowList
               /\ KeySet(output_data[1].summary) \subseteq AllowList

C2_Witness ==
    /\ target_classes.names = <<"person">>
    /\ output_data # <<>>
    /\ Count(results, "car") >= 1
    /\ Count(results, "person") >= 1
    /\ KeySet(output_data[1].detections_by_class) = {"person"}
    /\ KeySet(output_data[1].summary) = {"person"}

\* C3: with target_classes None a frame adds every one of its boxes to the
\* list of its class; with target_classes the empty list nothing is ever
\* added and detections_by_class and summary are empty.
C3_NoneIsNotEmptyList ==
    /\ [][ (target_classes.is_none /\ frame_number' = frame_number + 1) =>
               \A c \in Classes :
                   ListLen(detections', c)
                       = ListLen(detections, c) + Count(results', c) ]_vars
    /\ [] ( (~target_classes.is_none /\ target_classes.names = <<>>) =>
               /\ detections = <<>>
               /\ output_data # <<>> =>
                      /\ output_data[1].detections_by_class = <<>>
                      /\ output_data[1].summary = <<>> )

C3_Witness ==
    /\ ~target_classes.is_none
    /\ target_classes.names = <<>>
    /\ frame_number >= 2
    /\ results # <<>>
    /\ output_data # <<>>
    /\ output_data[1].summary = <<>>

C6_SummaryMatchesTimelines ==
    output_data # <<>> =>
        LET by_class == output_data[1].detections_by_class
            summary == output_data[1].summary
        IN  /\ KeySet(summary) = KeySet(by_class)
            /\ \A c \in KeySet(by_class) :
                   LET list == DictGet(by_class, c)
                       s == DictGet(summary, c)
                   IN  /\ s.count = Len(list)
                       /\ ParseTimestamp(s.first_appearance)
                              = list[1].timestamp_seconds
                       /\ ParseTimestamp(s.last_appearance)
                              = list[Len(list)].timestamp_seconds

\* the start and the end of an interval, in milliseconds
StartOf(iv) == ParseTimestamp(iv.start)

EndOf(iv) == ParseTimestamp(iv.end)

\* the timeline the merge loop was given
MergedTimeline == IF car_entry = <<>> THEN <<>> ELSE car_entry[1]

MergedTimes ==
    { MergedTimeline[i].timestamp_seconds : i \in 1..Len(MergedTimeline) }

Bounds(ivs) == [ i \in 1..Len(ivs) |-> << StartOf(ivs[i]), EndOf(ivs[i]) >> ]

TimesOf(tl) == [ i \in 1..Len(tl) |-> tl[i].timestamp_seconds ]

RECURSIVE FirstSeen(_, _)
FirstSeen(boxes, seen) ==
    IF boxes = <<>> THEN <<>>
    ELSE IF Head(boxes) \in seen THEN FirstSeen(Tail(boxes), seen)
    ELSE << Head(boxes) >> \o FirstSeen(Tail(boxes), seen \cup { Head(boxes) })

\* the frame numbers of the entries of a list
FrameNumbers(list) == [ i \in 1..Len(list) |-> list[i].frame_number ]

\* the list a dict holds for a key, empty without the key
ListOf(d, key) == IF key \in KeySet(d) THEN DictGet(d, key) ELSE <<>>

\* the position of a key in a dict
KeyIndex(d, key) == CHOOSE i \in 1..Len(d) : d[i].k = key

\* C10: the classes of detections_by_class and of summary are in the order
\* in which each was first detected, the entries of a class are in the
\* order in which they were ingested, and the CSV rows are written class by
\* class in that class order and, within a class, in that entry order.
C10_ExportOrder ==
    /\ [][ frame_number' = frame_number + 1 =>
               LET kept == SelectSeq(results',
                                     LAMBDA c : c \in KeySet(detections'))
               IN  /\ DictKeys(detections')
                          = DictKeys(detections)
                                \o FirstSeen(kept, KeySet(detections))
                   /\ \A c \in KeySet(detections') :
                          FrameNumbers(DictGet(detections', c))
                              = FrameNumbers(ListOf(detections, c))
                                    \o [ i \in 1..Count(kept, c) |->
                                           frame_number ] ]_vars
    /\ [] ( /\ output_data # <<>> =>
                /\ output_data[1].detections_by_class = detections
                /\ DictKeys(output_data[1].summary) = DictKeys(detections)
            /\ csv_file # <<>> =>
                LET rows == csv_file[1]
                IN  /\ \A p, q \in 1..Len(rows) :
                           p < q => KeyIndex(detections, rows[p][4])
                                        <= KeyIndex(detections, rows[q][4])
                    /\ \A c \in KeySet(detections) :
                           SelectSeq(rows, LAMBDA row : row[4] = c)
                               = [ i \in 1..Len(DictGet(detections, c)) |->
                                     CsvRow(DictGet(detections, c)[i]) ]
                    /\ \A p \in 1..Len(rows) :
                           rows[p][4] \in KeySet(detections) )

C10_Witness ==
    /\ csv_file # <<>>
    /\ DictKeys(detections) = << "person", "car" >>
    /\ Len(csv_file[1]) >= 4
    /\ csv_file[1][1][4] = "person"
    /\ csv_file[1][1][3] < csv_file[1][2][3]
    /\ csv_file[1][Len(csv_file[1])][4] = "car"

\* the sum of summary[class].count over all classes
RECURSIVE SumCounts(_)
SumCounts(summary) ==
    IF summary = <<>> THEN 0
    ELSE Head(summary).v.count + SumCounts(Tail(summary))

\* C11: the tabular export has as many data rows as the counts of the
\* summary add up to, for the result set returned by the run and for the
\* result set written as JSON and read back: a CSV file written, before or
\* after the read, holds that many rows, and the set read back carries the
\* same counts and the same number of detections.
C11_CsvRowsMatchSummary ==
    /\ [](csv_file # <<>> =>
             Len(csv_file[1]) = SumCounts(output_data[1].summary))
    /\ [](loaded_results # <<>> =>
             /\ SumCounts(loaded_results[1].summary)
                    = SumCounts(output_data[1].summary)
             /\ Len(CsvRows(loaded_results[1].detections_by_class))
                    = SumCounts(loaded_results[1].summary))
    /\ [][(loaded_results # <<>> /\ csv_file' # csv_file) =>
             Len(csv_file'[1]) = SumCounts(loaded_results[1].summary)]_vars

\* a CSV file of three rows over two classes, two of them from the same
\* frame, next to the result set read back from the JSON file
C11_Witness ==
    /\ loaded_results # <<>>
    /\ csv_file # <<>>
    /\ Len(csv_file[1]) = 3
    /\ Len(output_data[1].summary) = 2
    /\ \E i \in 1..2 : csv_file[1][i][3] = csv_file[1][i + 1][3]

\* C12: in every detection stored, timestamp_formatted read back in
\* milliseconds equals timestamp_seconds in milliseconds, for every frame
\* index and every fps.
C12_FormattedIsRoundedSeconds ==
    \A i \in 1..Len(detections) :
        \A j \in 1..Len(detections[i].v) :
            ParseTimestamp(detections[i].v[j].timestamp_formatted)
                = detections[i].v[j].timestamp_seconds

\* C13: a save_results call with a format that is neither json nor csv,
\* compared without regard to case, raises an error, writes no output file
\* and leaves the result set as it was; a call with json or csv, after a
\* failed call as well as before one, raises nothing and writes the export
\* of that unchanged result set.
C13_UnsupportedFormatFails ==
    [][\A format \in ExportFormats :
          SaveResults(format) =>
              /\ output_data' = output_data
              /\ detections' = detections
              /\ Lower(format) \notin {"json", "csv"} =>
                     /\ export_error' = "ValueError"
                     /\ json_file' = json_file
                     /\ csv_file' = csv_file
              /\ Lower(format) = "csv" =>
                     /\ export_error' = "none"
                     /\ csv_file' =
                            << CsvRows(output_data[1].detections_by_class) >>
              /\ Lower(format) = "json" =>
                     /\ export_error' = "none"
                     /\ JsonLoad(json_file'[1]) = output_data[1]]_vars

\* the last call failed; the JSON file written by an earlier call is still
\* there and no CSV file has appeared
C13_Witness ==
    /\ pc = "done"
    /\ export_error = "ValueError"
    /\ output_data[1].detections_by_class # <<>>
    /\ json_file # <<>>
    /\ csv_file = <<>>

\* C14: a run with fps <= 0 is not ended by the run itself: it fails only
\* if the source cannot be opened or the detector raises, every detection
\* it stores has timestamp_seconds = 0 and the frame_number of its frame,
\* and the result set it returns has duration_seconds = 0.
C14_NonPositiveFpsNotFatal ==
    fps <= 0 =>
        /\ pc = "failed" => error \in {"ValueError", "Exception"}
        /\ \A i \in 1..Len(detections) :
               \A j \in 1..Len(detections[i].v) :
                   /\ detections[i].v[j].timestamp_seconds = 0
                   /\ detections[i].v[j].frame_number < frame_number
        /\ output_data # <<>> =>
               output_data[1].video_properties.duration_seconds = 0

\* C15: a run that has ended after the capture was opened, whether the
\* source ran out or could not be read further or the detector raised, has
\* returned a result set that holds exactly the detections of the frames
\* processed until then, and that set can be exported.
C15_PartialResultReturned ==
    (pc \in {"done", "failed"} /\ error # "ValueError") =>
        /\ output_data # <<>>
        /\ output_data[1].detections_by_class = detections
        /\ ENABLED SaveResults("json")

\* the number of entries over all timelines
TotalEntries(d) ==
    LET F[i \in 0..Len(d)] == IF i = 0 THEN 0 ELSE F[i - 1] + Len(d[i].v)
    IN  F[Len(d)]

\* the boxes of a frame that pass the class filter
Passing(boxes) ==
    Cardinality({ i \in 1..Len(boxes) :
                    target_classes.is_none \/ boxes[i] \in AllowList })

\* C16: no detection is dropped or merged with another: every frame adds to
\* the timelines as many entries as it has boxes passing the class filter,
\* also when several boxes of one class lie in one frame; no other step
\* changes the number of entries, and the result set returned holds them all.
C16_EveryPassingBoxStored ==
    /\ [][ IF frame_number' = frame_number + 1
           THEN TotalEntries(detections')
                    = TotalEntries(detections) + Passing(results')
           ELSE TotalEntries(detections') = TotalEntries(detections) ]_vars
    /\ [] ( output_data # <<>> =>
              TotalEntries(output_data[1].detections_by_class)
                  = TotalEntries(detections) )

\* two boxes of one class in one frame are two entries of its timeline
C16_Witness ==
    /\ output_data # <<>>
    /\ frame_number = 1
    /\ results = << "car", "car" >>
    /\ TotalEntries(output_data[1].detections_by_class) = 2

\* the intervals of a timeline when the gap of a detection is taken from
\* the detection just before it: times is the sequence of timestamps
MergeByPrevious(times) ==
    LET n == Len(times)
        F[i \in 1..n] ==
            IF i = 1 THEN [ ivs |-> <<>>, start |-> times[1] ]
            ELSE IF times[i] - times[i - 1] <= GapTolerance
            THEN F[i - 1]
            ELSE [ ivs   |-> Append(F[i - 1].ivs,
                                    Interval(F[i - 1].start, times[i - 1])),
                   start |-> times[i] ]
    IN  Append(F[n].ivs, Interval(F[n].start, times[n]))

\* C17: while the merge loop runs, the end of the current interval is the
\* timestamp of the detection just before the one the loop visits next, so
\* the intervals the loop produces are those obtained by taking each gap
\* from the previous detection instead of from the current end.
C17_EndIsPreviousDetection ==
    /\ merge_pc = "loop" =>
           current_end =
               MergedTimeline[Len(MergedTimeline) - Len(rest)].timestamp_seconds
    /\ (merge_pc = "done" /\ MergedTimeline # <<>>) =>
           intervals = MergeByPrevious(TimesOf(MergedTimeline))

\* 0.0, 0.1, 1.1: the third detection is 1.1 s after the start of the
\* interval and 1.0 s after the previous detection, and extends it
C17_Witness ==
    /\ merge_pc = "done"
    /\ TimesOf(MergedTimeline) = << 0, 100, 1100 >>
    /\ Len(intervals) = 1

\* C18: the result set records target_classes as 'all classes' only for a
\* run with target_classes = None; a run with an allow-list, the empty one
\* included, records the list it was given.
C18_AllClassesOnlyForNone ==
    output_data # <<>> =>
        LET recorded == output_data[1].detection_settings.target_classes
        IN  /\ recorded.all_classes => target_classes.is_none
            /\ ~recorded.all_classes => recorded.names = target_classes.names

\* C19: the progress report never ends the run, whatever the number of
\* frames read and the frame count the source reports.
C19_ProgressNeverFails == error # "ZeroDivisionError"

\* C20: the results held in the session state were computed from the video
\* held in the session state: what the results tab shows next to the video
\* and offers for download under the video's name belongs to that video.
C20_ResultsOfCurrentVideo ==
    /\ detection_results # <<>> => detection_results = video_name
    /\ output_file # <<>> => output_file = video_name
====
